---- MODULE Spec2Model ----
(***************************************************************************)
(* Model of the ChatUI component (src/src/ChatUi.tsx): the connection      *)
(* manager (connectWebSocket, handleConnectionRetry and the WebSocket      *)
(* handlers), the outbound queue (sendMessage, flushMessageQueue) and the  *)
(* failed-message registry.                                                *)
(*                                                                         *)
(* React semantics that the model makes explicit:                          *)
(*  - a handler reads the state values of the render in which its closure  *)
(*    was created, not the current ones.  connectWebSocket and             *)
(*    handleConnectionRetry are useCallback closures that are re-created   *)
(*    only when connectionRetryCount changes (dependency lists, lines      *)
(*    451-456 and 539); the flags such a closure reads are a "snapshot".   *)
(*    The handlers of a WebSocket and the callback of a reconnect timer    *)
(*    keep the snapshot of the closure that created them.                  *)
(*  - state setters called in one handler are batched; the re-render and   *)
(*    the effects it triggers run before the next event is handled.        *)
(*  - setters are ignored once the component is unmounted; refs, sockets   *)
(*    and timers live on.                                                  *)
(*  - the props other than maxRetries keep their defaults (lines 66-72).   *)
(***************************************************************************)
EXTENDS Integers, Sequences, FiniteSets, TLC

\* ---------------------------------------------------------------- bounds
MaxSockets == 3
MaxTimers == 2
MaxSubmits == 1
\* sockets and reconnect timers while the message traffic is explored
MaxMsgSockets == 2
MaxMsgTimers == 1
\* longest content given to the codec on its own
MaxLen == 2
\* largest attempt number whose reconnect delay is computed on its own
MaxAttempt == 5
\* calls made on the MockWebSocket instance, and milliseconds that pass
\* between them
MaxCalls == 3
MaxNow == 1
\* close() calls made while the timers fire in the order of their due times
MaxCloses == 6

\* values of the maxRetries prop that are explored (5 is the default)
MaxRetriesValues == {0, 1, 5}

\* close codes a close event may carry: normal closure, abnormal closure
CloseCodes == {1000, 1006}

\* contents typed into the input; " " is whitespace only, "nihao" is a
\* Chinese text
Contents == {"hi", "nihao", " "}

\* String.prototype.trim() on the modelled contents
Trim(str) == IF str = " " THEN "" ELSE str

\* with the default websocketUrl (a well-formed wss: URL) the WebSocket
\* constructor does not throw
WebSocketCtorThrows == FALSE

\* default props
retryDelay == 2000
maxRetryDelay == 10000
enableExponentialBackoff == TRUE

\* ----------------------------------------------------------------- codec
\* Strings that go through the codec are sequences of UTF-16 code units.
\* values of the encryptionKey prop that are explored ("" is the default)
KeyValues == {"", "k"}

\* the code units of the contents: "nihao" stands for a two-character
\* Chinese text (U+4F60 U+597D), which is outside Latin-1
Chars(content) ==
  CASE content = "hi" -> <<104, 105>>
    [] content = " " -> <<32>>
    [] content = "nihao" -> <<20320, 22909>>
    [] content = "greeting" -> <<24744, 22909>>
    [] OTHER -> <<>>

\* what a call returns: a value, or an exception thrown
Ok(v) == [ok |-> TRUE, val |-> v]
Throw == [ok |-> FALSE, val |-> <<>>]

\* the character of the base64 alphabet for sextet n
B64Char(n) ==
  IF n < 26 THEN 65 + n
  ELSE IF n < 52 THEN 97 + (n - 26)
  ELSE IF n < 62 THEN 48 + (n - 52)
  ELSE IF n = 62 THEN 43 ELSE 47

\* the sextet of character c, -1 if c is not in the base64 alphabet
B64Val(c) ==
  IF c >= 65 /\ c <= 90 THEN c - 65
  ELSE IF c >= 97 /\ c <= 122 THEN c - 97 + 26
  ELSE IF c >= 48 /\ c <= 57 THEN c - 48 + 52
  ELSE IF c = 43 THEN 62
  ELSE IF c = 47 THEN 63
  ELSE -1

RECURSIVE B64Encode(_)
B64Encode(b) ==
  IF b = <<>> THEN <<>>
  ELSE IF Len(b) = 1
  THEN LET n == b[1] * 16
       IN <<B64Char(n \div 64), B64Char(n % 64), 61, 61>>
  ELSE IF Len(b) = 2
  THEN LET n == (b[1] * 256 + b[2]) * 4
       IN <<B64Char(n \div 4096), B64Char((n \div 64) % 64),
            B64Char(n % 64), 61>>
  ELSE LET n == b[1] * 65536 + b[2] * 256 + b[3]
       IN <<B64Char(n \div 262144), B64Char((n \div 4096) % 64),
            B64Char((n \div 64) % 64), B64Char(n % 64)>>
          \o B64Encode(SubSeq(b, 4, Len(b)))

\* window.btoa: InvalidCharacterError for a code unit above 0xFF
Btoa(str) ==
  IF \E i \in 1..Len(str) : str[i] > 255 THEN Throw ELSE Ok(B64Encode(str))

RECURSIVE B64Decode(_)
B64Decode(v) ==
  IF Len(v) < 2 THEN <<>>
  ELSE IF Len(v) = 2 THEN <<(v[1] * 64 + v[2]) \div 16>>
  ELSE IF Len(v) = 3
  THEN LET n == (v[1] * 4096 + v[2] * 64 + v[3]) \div 4
       IN <<n \div 256, n % 256>>
  ELSE LET n == v[1] * 262144 + v[2] * 4096 + v[3] * 64 + v[4]
       IN <<n \div 65536, (n \div 256) % 256, n % 256>>
          \o B64Decode(SubSeq(v, 5, Len(v)))

\* window.atob (forgiving-base64 decode): ASCII whitespace is removed, up
\* to two "=" are removed from a text whose length is a multiple of 4, and
\* InvalidCharacterError is thrown for a length of 1 modulo 4 or a
\* character outside the alphabet
Atob(str) ==
  LET t == SelectSeq(str, LAMBDA c : c \notin {9, 10, 12, 13, 32})
      n == Len(t)
      cut == IF n % 4 = 0 /\ n > 0 /\ t[n] = 61
             THEN IF t[n - 1] = 61 THEN 2 ELSE 1
             ELSE 0
      u == SubSeq(t, 1, n - cut)
  IN IF Len(u) % 4 = 1 \/ \E i \in 1..Len(u) : B64Val(u[i]) = -1
     THEN Throw
     ELSE Ok(B64Decode([i \in 1..Len(u) |-> B64Val(u[i])]))

\* encryptMessage and decryptMessage with key the encryptionKey prop
EncryptMessage(key, message) ==
  IF key = "" THEN Ok(message) ELSE Btoa(message)

DecryptMessage(key, encrypted) ==
  IF key = "" THEN Ok(encrypted) ELSE Atob(encrypted)

\* a JSON string literal: quotation mark and reverse solidus are escaped
\* (the modelled texts hold no control character and no lone surrogate)
RECURSIVE JsonEscape(_)
JsonEscape(str) ==
  IF str = <<>> THEN <<>>
  ELSE (IF Head(str) \in {34, 92} THEN <<92, Head(str)>> ELSE <<Head(str)>>)
       \o JsonEscape(Tail(str))

JsonQuote(str) == <<34>> \o JsonEscape(str) \o <<34>>

\* the member names of the envelope
KeyId == <<105, 100>>
KeyContent == <<99, 111, 110, 116, 101, 110, 116>>
KeyTimestamp == <<116, 105, 109, 101, 115, 116, 97, 109, 112>>

\* JSON.stringify({id, content, timestamp}) with string members
JsonStringify(env) ==
  <<123>> \o JsonQuote(KeyId) \o <<58>> \o JsonQuote(env.id) \o <<44>>
    \o JsonQuote(KeyContent) \o <<58>> \o JsonQuote(env.content) \o <<44>>
    \o JsonQuote(KeyTimestamp) \o <<58>> \o JsonQuote(env.timestamp)
    \o <<125>>

\* reads the string literal that starts at text[i]: its value and the
\* position after the closing quotation mark
RECURSIVE ReadChars(_, _, _)
ReadChars(text, i, acc) ==
  IF i > Len(text) THEN [ok |-> FALSE, val |-> <<>>, next |-> i]
  ELSE IF text[i] = 34 THEN [ok |-> TRUE, val |-> acc, next |-> i + 1]
  ELSE IF text[i] = 92
  THEN IF i + 1 <= Len(text) /\ text[i + 1] \in {34, 92}
       THEN ReadChars(text, i + 2, Append(acc, text[i + 1]))
       ELSE [ok |-> FALSE, val |-> <<>>, next |-> i]
  ELSE ReadChars(text, i + 1, Append(acc, text[i]))

ReadString(text, i) ==
  IF i <= Len(text) /\ text[i] = 34
  THEN ReadChars(text, i + 1, <<>>)
  ELSE [ok |-> FALSE, val |-> <<>>, next |-> i]

\* text has the characters of lit at position i
Expect(text, i, lit) ==
  i + Len(lit) - 1 <= Len(text) /\ SubSeq(text, i, i + Len(lit) - 1) = lit

\* the literal null
JsonNull == <<110, 117, 108, 108>>

\* JSON.parse on the frames the model delivers: an envelope as
\* JSON.stringify writes it, the literal null, or a text that is not JSON
\* (SyntaxError)
JsonParse(text) ==
  IF text = JsonNull THEN Ok([null |-> TRUE])
  ELSE
  LET p1 == <<123>> \o JsonQuote(KeyId) \o <<58>>
      p2 == <<44>> \o JsonQuote(KeyContent) \o <<58>>
      p3 == <<44>> \o JsonQuote(KeyTimestamp) \o <<58>>
      r1 == ReadString(text, 1 + Len(p1))
      r2 == ReadString(text, r1.next + Len(p2))
      r3 == ReadString(text, r2.next + Len(p3))
  IN IF /\ Expect(text, 1, p1) /\ r1.ok
        /\ Expect(text, r1.next, p2) /\ r2.ok
        /\ Expect(text, r2.next, p3) /\ r3.ok
        /\ r3.next = Len(text) /\ text[r3.next] = 125
     THEN Ok([id |-> r1.val, content |-> r2.val, timestamp |-> r3.val])
     ELSE Throw

\* the frame sendMessage builds (lines 394-400): a throw of the codec is a
\* throw of the whole expression
Encode(key, env) == EncryptMessage(key, JsonStringify(env))

\* what ws.onmessage computes at lines 490-491
Decode(key, frame) ==
  LET d == DecryptMessage(key, frame)
  IN IF d.ok THEN JsonParse(d.val) ELSE Throw

VARIABLES
  phase,                \* "initial" (rendered, effects not yet run), "mounted", "unmounted"
  maxRetries,           \* prop
  encryptionKey,        \* prop
  isConnected, isConnecting, isAutoConnecting, connectionRetryCount,
  showErrorMessage,
  messages,             \* sequence of [id, content, role, status, retryCount, timestamp]
  messageQueueRef,      \* sequence of messages
  failedMessagesRef,    \* the registry: sequence of messages in insertion order
  retryMessageId,       \* id of the message being retried, 0 = null
  retryTimers,          \* ids of messages whose delayed retry send is pending
  wsRef,                \* index into sockets, 0 = null
  retryTimeoutRef,      \* id of the last reconnect timer, 0 = null
  sockets,              \* every WebSocket created so far
  timers,               \* pending reconnect timers: set of [id, snap]
  timerSeq,             \* ids handed out by setTimeout
  cur,                  \* snapshot read by the current connectWebSocket closure
  wire,                 \* frames for which WebSocket.send returned normally
  offline,              \* history: contents submitted while not connected
  lastOp,               \* history: the last connection event handled
  retried,              \* history: the message whose retry was last requested, 0 = none
  codec,                \* the codec applied to an envelope on its own
  backoff,              \* the delay computation of handleConnectionRetry on its own
  mock                  \* the MockWebSocket singleton

vars == <<phase, maxRetries, isConnected, isConnecting, isAutoConnecting,
          connectionRetryCount, showErrorMessage, messages, messageQueueRef,
          failedMessagesRef, wsRef, retryTimeoutRef, sockets, timers,
          timerSeq, cur, wire, retryMessageId, retryTimers, offline,
          lastOp, retried, encryptionKey, codec, backoff, mock>>

\* the component as one record, so that handlers can call each other
World ==
  [phase |-> phase, maxRetries |-> maxRetries,
   encryptionKey |-> encryptionKey,
   isConnected |-> isConnected, isConnecting |-> isConnecting,
   isAutoConnecting |-> isAutoConnecting,
   connectionRetryCount |-> connectionRetryCount,
   showErrorMessage |-> showErrorMessage,
   messages |-> messages, messageQueueRef |-> messageQueueRef,
   failedMessagesRef |-> failedMessagesRef,
   wsRef |-> wsRef, retryTimeoutRef |-> retryTimeoutRef,
   sockets |-> sockets, timers |-> timers, timerSeq |-> timerSeq,
   cur |-> cur, wire |-> wire,
   retryMessageId |-> retryMessageId, retryTimers |-> retryTimers]

CommitWorld(n) ==
  /\ phase' = n.phase
  /\ maxRetries' = n.maxRetries
  /\ encryptionKey' = n.encryptionKey
  /\ isConnected' = n.isConnected
  /\ isConnecting' = n.isConnecting
  /\ isAutoConnecting' = n.isAutoConnecting
  /\ connectionRetryCount' = n.connectionRetryCount
  /\ showErrorMessage' = n.showErrorMessage
  /\ messages' = n.messages
  /\ messageQueueRef' = n.messageQueueRef
  /\ failedMessagesRef' = n.failedMessagesRef
  /\ wsRef' = n.wsRef
  /\ retryTimeoutRef' = n.retryTimeoutRef
  /\ sockets' = n.sockets
  /\ timers' = n.timers
  /\ timerSeq' = n.timerSeq
  /\ cur' = n.cur
  /\ wire' = n.wire
  /\ retryMessageId' = n.retryMessageId
  /\ retryTimers' = n.retryTimers

\* a step of the component alone
Commit(n) ==
  /\ CommitWorld(n)
  /\ codec' = codec
  /\ backoff' = backoff
  /\ mock' = mock

\* the state values a closure created in the current render captures
Snap(w) ==
  [isConnected |-> w.isConnected, isConnecting |-> w.isConnecting,
   isAutoConnecting |-> w.isAutoConnecting,
   connectionRetryCount |-> w.connectionRetryCount]

\* a useState setter: ignored after unmount
SetState(w, field, value) ==
  IF w.phase = "unmounted" THEN w ELSE [w EXCEPT ![field] = value]

\* WebSocket.close() on socket s (0 = no socket): starts the closing
\* handshake of a socket that is connecting or open, otherwise nothing
WsCloseCall(w, s) ==
  IF s # 0 /\ w.sockets[s].st \in {"connecting", "open"}
  THEN [w EXCEPT !.sockets[s].st = "closing"]
  ELSE w

\* clearTimeout(id)
ClearTimeout(w, id) ==
  [w EXCEPT !.timers = {t \in w.timers : t.id # id}]

\* ------------------------------------------------- reconnect scheduling
RECURSIVE Pow2(_)
Pow2(n) == IF n = 0 THEN 1 ELSE 2 * Pow2(n - 1)

Min(a, b) == IF a < b THEN a ELSE b

\* the expression of lines 443-445 without the cap of Math.min
Delay_NoCap(enable, base, max, nextRetry) ==
  IF enable
  THEN base * Pow2(nextRetry)
  ELSE base

\* the expression of lines 443-445 for the props enableExponentialBackoff,
\* retryDelay and maxRetryDelay
Delay(enable, base, max, nextRetry) ==
  IF enable
  THEN Min(base * Pow2(nextRetry), max)
  ELSE base

\* the delay computed at lines 443-445 with the default props
BackoffDelay(nextRetry) ==
  Delay(enableExponentialBackoff, retryDelay, maxRetryDelay, nextRetry)

\* handleConnectionRetry as created in the render of snapshot snap.  The
\* timer callback calls the connectWebSocket of the same render (both are
\* re-created exactly when connectionRetryCount changes).
HandleConnectionRetry(w, snap) ==
  IF snap.connectionRetryCount >= w.maxRetries
  THEN w
  ELSE LET nextRetry == snap.connectionRetryCount + 1
           w1 == SetState(SetState(w, "isAutoConnecting", TRUE),
                          "connectionRetryCount", nextRetry)
           id == w1.timerSeq + 1
       IN [w1 EXCEPT !.timers = @ \cup {[id |-> id, snap |-> snap,
                                         delay |-> BackoffDelay(nextRetry)]},
                     !.timerSeq = id,
                     !.retryTimeoutRef = id]

\* ------------------------------------------------------------- sending
\* setMessages(prev => prev.map(...)) changing the status of message id
SetStatus(w, id, status) ==
  SetState(w, "messages",
           [i \in 1..Len(w.messages) |->
              IF w.messages[i].id = id
              THEN [w.messages[i] EXCEPT !.status = status]
              ELSE w.messages[i]])

\* the id (a uuid) and the timestamp (Date.toISOString) of a message as
\* texts: one digit each, the timestamp between "T" and "Z"
IdStr(n) == <<48 + n>>
ToISOString(t) == <<84, 48 + t, 90>>

\* the object that sendMessage and retryFailedMessage serialize
Envelope(msg) ==
  [id |-> IdStr(msg.id), content |-> Chars(msg.content),
   timestamp |-> ToISOString(msg.timestamp)]

\* the frame built for msg with the encryptionKey prop
Frame(w, msg) == Encode(w.encryptionKey, Envelope(msg))

\* WebSocket.send throws InvalidStateError while the socket is connecting
SendThrows(w) == w.wsRef # 0 /\ w.sockets[w.wsRef].st = "connecting"

\* wsRef.current?.send(frame): no call without a socket; otherwise the frame
\* is handed to the socket, in whatever state it is
TransportSend(w, msg) ==
  IF w.wsRef = 0 THEN w
  ELSE [w EXCEPT !.wire = Append(@, [s |-> w.wsRef,
                                     st |-> w.sockets[w.wsRef].st,
                                     connected |-> w.isConnected,
                                     id |-> msg.id,
                                     content |-> msg.content,
                                     frame |-> Frame(w, msg).val])]

\* sendMessage whose catch block also records the message in the registry
SendMessage_Registers(w, ic, msg) ==
  IF ~ic
  THEN [w EXCEPT !.messageQueueRef = Append(@, msg)]
  ELSE IF ~Frame(w, msg).ok \/ SendThrows(w)
       THEN [SetStatus(w, msg.id, "failed") EXCEPT
               !.failedMessagesRef = Append(@, msg)]
       ELSE SetStatus(TransportSend(w, msg), msg.id, "sending")

\* sendMessage as created in a render where isConnected = ic
SendMessage(w, ic, msg) ==
  IF ~ic
  THEN [w EXCEPT !.messageQueueRef = Append(@, msg)]
  ELSE IF ~Frame(w, msg).ok \/ SendThrows(w)
       THEN SetStatus(w, msg.id, "failed")
       ELSE SetStatus(TransportSend(w, msg), msg.id, "sending")

RECURSIVE SendAll(_, _, _)
SendAll(w, ic, q) ==
  IF q = <<>> THEN w
  ELSE SendAll(SendMessage(w, ic, Head(q)), ic, Tail(q))

\* flushMessageQueue as created in the render of snapshot snap
FlushMessageQueue(w, snap) ==
  IF Len(w.messageQueueRef) > 0 /\ snap.isConnected
  THEN [SendAll(w, snap.isConnected, w.messageQueueRef)
          EXCEPT !.messageQueueRef = <<>>]
  ELSE w

InRegistry(w, id) ==
  \E i \in 1..Len(w.failedMessagesRef) : w.failedMessagesRef[i].id = id

\* retryFailedMessage as created in a render where isConnected = ic; the
\* send itself happens later, in the timer set at line 340
RetryFailedMessage(w, ic, messageId) ==
  LET w1 == SetState(w, "retryMessageId", messageId)
  IN IF InRegistry(w1, messageId) /\ ic
     THEN LET w2 == SetState(w1, "messages",
                      [i \in 1..Len(w1.messages) |->
                         IF w1.messages[i].id = messageId
                         THEN [w1.messages[i] EXCEPT
                                 !.status = "sending",
                                 !.retryCount = @ + 1]
                         ELSE w1.messages[i]])
          IN [w2 EXCEPT !.retryTimers = @ \cup {messageId}]
     ELSE w1

\* the callback of the timer that retryFailedMessage sets (lines 340-358);
\* msg is the registry entry read at line 322
RetrySend(w, msg) ==
  LET w1 == [w EXCEPT !.retryTimers = @ \ {msg.id}]
  IN IF ~Frame(w1, msg).ok \/ SendThrows(w1)
     THEN SetState(w1, "retryMessageId", 0)
     ELSE SetState([TransportSend(w1, msg) EXCEPT
                      !.failedMessagesRef =
                         SelectSeq(@, LAMBDA m : m.id # msg.id)],
                   "retryMessageId", 0)

RECURSIVE RetryAll(_, _, _)
RetryAll(w, ic, q) ==
  IF q = <<>> THEN w
  ELSE RetryAll(RetryFailedMessage(w, ic, Head(q).id), ic, Tail(q))

\* flushFailedMessages as created in the render of snapshot snap
FlushFailedMessages(w, snap) ==
  RetryAll(w, snap.isConnected, w.failedMessagesRef)

\* --------------------------------------------------- connection manager
\* a WebSocket just constructed by the closure with snapshot snap
NewSocket(snap) ==
  [st |-> "connecting", snap |-> snap, err |-> FALSE, wasOpen |-> FALSE,
   code |-> 0, sched |-> 0]

\* connectWebSocket with a guard that reads the current flags instead of the
\* flags of the render that created the closure
ConnectWebSocket_CurrentFlags(w, snap) ==
  IF w.isConnecting \/ w.isConnected \/ w.isAutoConnecting
  THEN w
  ELSE LET w1 == SetState(SetState(w, "isConnecting", TRUE),
                          "showErrorMessage", FALSE)
       IN IF WebSocketCtorThrows
          THEN HandleConnectionRetry(SetState(w1, "isConnecting", FALSE), snap)
          ELSE [w1 EXCEPT !.sockets = Append(@, NewSocket(snap)),
                          !.wsRef = Len(w1.sockets) + 1]

\* connectWebSocket as created in the render of snapshot snap
ConnectWebSocket(w, snap) ==
  IF snap.isConnecting \/ snap.isConnected \/ snap.isAutoConnecting
  THEN w
  ELSE LET w1 == SetState(SetState(w, "isConnecting", TRUE),
                          "showErrorMessage", FALSE)
       IN IF WebSocketCtorThrows
          THEN HandleConnectionRetry(SetState(w1, "isConnecting", FALSE), snap)
          ELSE [w1 EXCEPT !.sockets = Append(@, NewSocket(snap)),
                          !.wsRef = Len(w1.sockets) + 1]

\* ws.onopen of socket s
OnOpen(w, s) ==
  LET snap == w.sockets[s].snap
      w1 == SetState(w, "isConnected", TRUE)
      w2 == SetState(w1, "isConnecting", FALSE)
      w3 == SetState(w2, "isAutoConnecting", FALSE)
      w4 == SetState(w3, "connectionRetryCount", 0)
  IN FlushFailedMessages(FlushMessageQueue(w4, snap), snap)

\* the content token that a text stands for
FromChars(chars) ==
  IF \E c \in Contents : Chars(c) = chars
  THEN CHOOSE c \in Contents : Chars(c) = chars
  ELSE "other"

\* ws.onmessage whose catch block also raises the error banner
OnMessage_ErrorBanner(w, frame) ==
  LET r == Decode(w.encryptionKey, frame)
  IN IF ~r.ok THEN SetState(w, "showErrorMessage", TRUE)
     ELSE IF "null" \in DOMAIN r.val
     THEN IF w.phase = "mounted"
          THEN LET w1 == WsCloseCall(w, w.wsRef)
                   w2 == IF w1.retryTimeoutRef # 0
                         THEN ClearTimeout(w1, w1.retryTimeoutRef) ELSE w1
               IN [w2 EXCEPT !.phase = "unmounted"]
          ELSE w
     ELSE SetState(w, "messages",
            [i \in 1..Len(w.messages) |->
               IF IdStr(w.messages[i].id) = r.val.id
               THEN [w.messages[i] EXCEPT
                       !.content = FromChars(r.val.content),
                       !.status = "sent"]
               ELSE w.messages[i]])

\* ws.onmessage with event.data = frame.  A throw of decryptMessage or of
\* JSON.parse is caught at line 505.  The updater given to setMessages
\* reads parsedResponse.id when React runs it in the next render, outside
\* the try block: for the value null that read throws a TypeError in the
\* render, and React unmounts the tree (there is no error boundary).
OnMessage(w, frame) ==
  LET r == Decode(w.encryptionKey, frame)
  IN IF ~r.ok THEN w
     ELSE IF "null" \in DOMAIN r.val
     THEN IF w.phase = "mounted"
          THEN LET w1 == WsCloseCall(w, w.wsRef)
                   w2 == IF w1.retryTimeoutRef # 0
                         THEN ClearTimeout(w1, w1.retryTimeoutRef) ELSE w1
               IN [w2 EXCEPT !.phase = "unmounted"]
          ELSE w
     ELSE SetState(w, "messages",
            [i \in 1..Len(w.messages) |->
               IF IdStr(w.messages[i].id) = r.val.id
               THEN [w.messages[i] EXCEPT
                       !.content = FromChars(r.val.content),
                       !.status = "sent"]
               ELSE w.messages[i]])

\* ws.onerror of socket s
OnError(w, s) ==
  HandleConnectionRetry(WsCloseCall(w, s), w.sockets[s].snap)

\* ws.onclose that takes the reconnect path whatever the close code
OnClose_AnyCode(w, s, code) ==
  LET snap == w.sockets[s].snap
      w1 == SetState(SetState(w, "isConnected", FALSE), "isConnecting", FALSE)
  IN IF snap.connectionRetryCount < w.maxRetries
     THEN HandleConnectionRetry(w1, snap)
     ELSE SetState(w1, "showErrorMessage", TRUE)

\* ws.onclose of socket s with event.code = code
OnClose(w, s, code) ==
  LET snap == w.sockets[s].snap
      w1 == SetState(SetState(w, "isConnected", FALSE), "isConnecting", FALSE)
  IN IF code # 1000 /\ snap.connectionRetryCount < w.maxRetries
     THEN HandleConnectionRetry(w1, snap)
     ELSE SetState(w1, "showErrorMessage", TRUE)

\* The re-render after a handler.  connectWebSocket is re-created when
\* connectionRetryCount differs from the value of the previous render; the
\* auto-connect effect (lines 560-570) then runs its cleanup and calls the
\* new connectWebSocket.
RECURSIVE Render(_)
Render(w) ==
  IF w.phase # "mounted" \/ w.connectionRetryCount = w.cur.connectionRetryCount
  THEN w
  ELSE LET w1 == [w EXCEPT !.cur = Snap(w)]
           w2 == WsCloseCall(w1, w1.wsRef)
       IN Render(ConnectWebSocket(w2, w2.cur))

\* handleSend memoised without isConnected among its dependencies: it and
\* the sendMessage it calls read the isConnected of an earlier render
HandleSendBody_StaleConnected(w, content) ==
  IF Trim(content) = "" \/ ~w.cur.isConnected
  THEN w
  ELSE LET userMsg == [id |-> Len(w.messages) + 1, content |-> content,
                       role |-> "user", status |-> "sending",
                       retryCount |-> 0,
                       timestamp |-> Len(w.messages) + 1]
           w1 == SetState(w, "messages", Append(w.messages, userMsg))
       IN SendMessage(w1, w.cur.isConnected, userMsg)

\* handleSend with inputValue = content (isConnected is a dependency of
\* handleSend and of sendMessage, so both read the current value)
HandleSendBody(w, content) ==
  IF Trim(content) = "" \/ ~w.isConnected
  THEN w
  ELSE LET userMsg == [id |-> Len(w.messages) + 1, content |-> content,
                       role |-> "user", status |-> "sending",
                       retryCount |-> 0,
                       timestamp |-> Len(w.messages) + 1]
           w1 == SetState(w, "messages", Append(w.messages, userMsg))
       IN SendMessage(w1, w.isConnected, userMsg)

\* the cleanups run at unmount (lines 366-376 and 562-569)
UnmountBody(w) ==
  LET w1 == WsCloseCall(w, w.wsRef)
      w2 == IF w1.retryTimeoutRef # 0
            THEN ClearTimeout(w1, w1.retryTimeoutRef) ELSE w1
      w3 == WsCloseCall(w2, w2.wsRef)
  IN [w3 EXCEPT !.phase = "unmounted"]

\* ------------------------------------------------------------ behaviour
Snap0 ==
  [isConnected |-> FALSE, isConnecting |-> FALSE,
   isAutoConnecting |-> FALSE, connectionRetryCount |-> 0]

\* the greeting the message list starts with (lines 75-83)
Greeting ==
  [id |-> 1, content |-> "greeting", role |-> "ai", status |-> "sent",
   retryCount |-> 0, timestamp |-> 1]

\* the codec variable while the component runs
CodecIdle == [stage |-> "idle"]

\* the backoff variable while the component runs
BackoffIdle == [stage |-> "idle"]

\* the mock variable while the component runs: ChatUi.tsx never imports
\* MockWebSocket
MockIdle == [stage |-> "idle"]

\* the first render, before its effects have run
FirstRender ==
  /\ phase = "initial"
  /\ isConnected = FALSE
  /\ isConnecting = FALSE
  /\ isAutoConnecting = FALSE
  /\ connectionRetryCount = 0
  /\ showErrorMessage = FALSE
  /\ messages = <<Greeting>>
  /\ messageQueueRef = <<>>
  /\ failedMessagesRef = <<>>
  /\ retryMessageId = 0
  /\ retryTimers = {}
  /\ wsRef = 0
  /\ retryTimeoutRef = 0
  /\ sockets = <<>>
  /\ timers = {}
  /\ timerSeq = 0
  /\ cur = Snap0
  /\ wire = <<>>
  /\ offline = <<>>
  /\ lastOp = "init"
  /\ retried = 0

Init ==
  /\ FirstRender
  /\ maxRetries \in MaxRetriesValues
  /\ encryptionKey \in KeyValues
  /\ codec = CodecIdle
  /\ backoff = BackoffIdle
  /\ mock = MockIdle

\* the caps on the sockets and timers ever created
Bounded(n) == Len(n.sockets) <= MaxSockets /\ n.timerSeq <= MaxTimers

\* history: the reconnect timers that the handlers of socket s scheduled
Sched(w, n, s) ==
  [n EXCEPT !.sockets[s].sched = @ + (n.timerSeq - w.timerSeq)]

\* the effects of the first render: the auto-connect effect calls
\* connectWebSocket (line 561)
Mount ==
  /\ phase = "initial"
  /\ LET n == Render(ConnectWebSocket([World EXCEPT !.phase = "mounted"], cur))
     IN Bounded(n) /\ Commit(n)
  /\ lastOp' = "mount"
  /\ UNCHANGED <<offline, retried>>

\* the transport of socket s opens
WsOpen(s) ==
  /\ sockets[s].st = "connecting"
  /\ LET w == [World EXCEPT !.sockets[s].st = "open",
                            !.sockets[s].wasOpen = TRUE]
         n == Render(OnOpen(w, s))
     IN Bounded(n) /\ Commit(n)
  /\ lastOp' = "open"
  /\ UNCHANGED <<offline, retried>>

\* the transport of socket s reports an error (a close event follows)
WsError(s) ==
  /\ sockets[s].st \in {"connecting", "open", "closing"}
  /\ ~sockets[s].err
  /\ LET w == [World EXCEPT !.sockets[s].err = TRUE]
         n == Render(Sched(w, OnError(w, s), s))
     IN Bounded(n) /\ Commit(n)
  /\ lastOp' = "error"
  /\ UNCHANGED <<offline, retried>>

\* the close event of socket s, with its code
WsClose(s, code) ==
  /\ sockets[s].st \in {"connecting", "open", "closing"}
  /\ LET w == [World EXCEPT !.sockets[s].st = "closed",
                            !.sockets[s].code = code]
         n == Render(Sched(w, OnClose(w, s, code), s))
     IN Bounded(n) /\ Commit(n)
  /\ lastOp' = "close"
  /\ UNCHANGED <<offline, retried>>

\* the reconnect timer t elapses (lines 447-450)
TimerFire(t) ==
  /\ t \in timers
  /\ LET w == [World EXCEPT !.timers = @ \ {t}]
         n == Render(ConnectWebSocket(w, t.snap))
     IN Bounded(n) /\ Commit(n)
  /\ lastOp' = "timer"
  /\ UNCHANGED <<offline, retried>>

\* the user clicks the reconnect button of the error banner (lines 589, 677)
ManualConnect ==
  /\ phase = "mounted"
  /\ showErrorMessage
  /\ LET n == Render(ConnectWebSocket(World, cur))
     IN Bounded(n) /\ Commit(n)
  /\ lastOp' = "connect"
  /\ UNCHANGED <<offline, retried>>

\* the user submits content (Enter or the send button)
HandleSend(content) ==
  /\ phase = "mounted"
  /\ Trim(content) # "" => Len(offline) + Len(messages) - 1 < MaxSubmits
  /\ Commit(Render(HandleSendBody(World, content)))
  /\ offline' = IF Trim(content) # "" /\ ~isConnected
                THEN Append(offline, content) ELSE offline
  /\ UNCHANGED <<lastOp, retried>>

\* the frames a server may push: the reply to a user message, as plain
\* JSON or base64-encoded whatever the encryptionKey prop is, and the
\* JSON text null
ReplyEnvelope(id) ==
  [id |-> IdStr(id), content |-> Chars("hi"), timestamp |-> ToISOString(0)]

InboundFrames ==
  {Encode(k, ReplyEnvelope(id)).val :
     k \in KeyValues, id \in 2..(MaxSubmits + 1)} \cup {JsonNull}

\* a message event of socket s (delivered only while the socket is open)
WsMessage(s, frame) ==
  /\ sockets[s].st = "open"
  /\ Commit(Render(OnMessage(World, frame)))
  /\ lastOp' = IF Decode(encryptionKey, frame).ok THEN "message"
               ELSE "dropped"
  /\ UNCHANGED <<offline, retried>>

\* the user confirms the retry offered next to the failed message id
\* (lines 700-704); isConnected is a dependency of retryFailedMessage
ManualRetry(id) ==
  /\ phase = "mounted"
  /\ messages[id].status = "failed"
  /\ Commit(Render(RetryFailedMessage(World, isConnected, id)))
  /\ retried' = id
  /\ UNCHANGED <<offline, lastOp>>

\* the component is unmounted
Unmount ==
  /\ phase = "mounted"
  /\ Commit(UnmountBody(World))
  /\ lastOp' = "unmount"
  /\ UNCHANGED <<offline, retried>>

\* the events of the connection manager
NextConn ==
  \/ Mount
  \/ \E s \in 1..Len(sockets) : WsOpen(s)
  \/ \E s \in 1..Len(sockets) : WsError(s)
  \/ \E s \in 1..Len(sockets), code \in CloseCodes : WsClose(s, code)
  \/ \E t \in timers : TimerFire(t)
  \/ ManualConnect
  \/ Unmount

Next ==
  \/ NextConn
  \/ \E content \in Contents : HandleSend(content)
  \/ \E id \in 1..Len(messages) : ManualRetry(id)
  \/ \E s \in 1..Len(sockets), frame \in InboundFrames : WsMessage(s, frame)

\* the whole component
Spec == Init /\ [][Next]_vars

\* The connection manager alone.  handleSend, retryFailedMessage and
\* ws.onmessage write messages, wire, messageQueueRef and retryMessageId
\* only, and no connection handler reads them to decide a flag, a socket or
\* a timer, so the connection variables behave the same with and without
\* them (the render that an inbound null breaks ends as Unmount does).
SpecConn == Init /\ [][NextConn]_vars

\* The message traffic of the mounted component (handleSend,
\* retryFailedMessage, ws.onmessage) with the connection events, over fewer
\* sockets and reconnect timers and with the default maxRetries.  After an
\* unmount there is no input to submit and no retry to confirm, and the
\* setters of ws.onmessage are ignored.
InitMsg ==
  /\ FirstRender
  /\ maxRetries = 5
  /\ encryptionKey \in KeyValues
  /\ codec = CodecIdle
  /\ backoff = BackoffIdle
  /\ mock = MockIdle

MsgBounded == Len(sockets) <= MaxMsgSockets /\ timerSeq <= MaxMsgTimers

NextMsg ==
  \/ Mount /\ MsgBounded'
  \/ \E s \in 1..Len(sockets) : WsOpen(s) /\ MsgBounded'
  \/ \E s \in 1..Len(sockets) : WsError(s) /\ MsgBounded'
  \/ \E s \in 1..Len(sockets), code \in CloseCodes :
        WsClose(s, code) /\ MsgBounded'
  \/ \E t \in timers : TimerFire(t) /\ MsgBounded'
  \/ ManualConnect /\ MsgBounded'
  \/ \E content \in Contents : HandleSend(content)
  \/ \E id \in 1..Len(messages) : ManualRetry(id)
  \/ \E s \in 1..Len(sockets), frame \in InboundFrames : WsMessage(s, frame)

SpecMsg == InitMsg /\ [][NextMsg]_vars

\* ------------------------------------------------- the codec on its own
\* code units of the contents given to the codec: h, the quotation mark, the
\* reverse solidus, U+00FF (the last Latin-1 character) and U+4F60
CodecAlphabet == {104, 34, 92, 255, 20320}

CodecContents ==
  UNION {[1..n -> CodecAlphabet] : n \in 1..MaxLen}

CodecEnvelopes ==
  {[id |-> IdStr(i), content |-> c, timestamp |-> ToISOString(0)] :
     i \in {1, 2}, c \in CodecContents}

\* an envelope about to be encoded with the encryptionKey prop
InitCodec ==
  /\ FirstRender
  /\ maxRetries = 5
  /\ encryptionKey \in KeyValues
  /\ codec \in {[stage |-> "input", env |-> e] : e \in CodecEnvelopes}
  /\ backoff = BackoffIdle
  /\ mock = MockIdle

Component ==
  <<phase, maxRetries, encryptionKey, isConnected, isConnecting,
    isAutoConnecting, connectionRetryCount, showErrorMessage, messages,
    messageQueueRef, failedMessagesRef, wsRef, retryTimeoutRef, sockets,
    timers, timerSeq, cur, wire, retryMessageId, retryTimers, offline,
    lastOp, retried>>

\* the expression of lines 394-400
CodecEncode ==
  /\ codec.stage = "input"
  /\ codec' = [stage |-> "encoded", env |-> codec.env,
               frame |-> Encode(encryptionKey, codec.env)]
  /\ UNCHANGED <<Component, backoff, mock>>

\* lines 490-491 applied to the frame that was built
CodecDecode ==
  /\ codec.stage = "encoded"
  /\ codec.frame.ok
  /\ codec' = [stage |-> "decoded", env |-> codec.env, frame |-> codec.frame,
               out |-> Decode(encryptionKey, codec.frame.val)]
  /\ UNCHANGED <<Component, backoff, mock>>

NextCodec == CodecEncode \/ CodecDecode

SpecCodec == InitCodec /\ [][NextCodec]_vars

\* ------------------------------------- the reconnect delay on its own
\* values of the retryDelay and maxRetryDelay props (milliseconds); 6000 is
\* a base delay above the smallest cap
BaseDelays == {500, 1000, 2000, 3000, 6000}
MaxDelays == {5000, 10000, 30000}

\* the props drawn, no retry scheduled yet: n is connectionRetryCount
InitBackoff ==
  /\ FirstRender
  /\ maxRetries = MaxAttempt
  /\ encryptionKey = ""
  /\ codec = CodecIdle
  /\ mock = MockIdle
  /\ backoff \in {[stage |-> "run", enable |-> e, base |-> b, max |-> m,
                    n |-> 0, delay |-> 0] :
                     e \in BOOLEAN, b \in BaseDelays, m \in MaxDelays}

\* lines 433-445 in a render whose connectionRetryCount is backoff.n
BackoffRetry ==
  /\ backoff.n < maxRetries
  /\ LET nextRetry == backoff.n + 1
     IN backoff' = [backoff EXCEPT
                      !.n = nextRetry,
                      !.delay = Delay(backoff.enable, backoff.base,
                                      backoff.max, nextRetry)]
  /\ UNCHANGED <<Component, codec, mock>>

NextBackoff == BackoffRetry

SpecBackoff == InitBackoff /\ [][NextBackoff]_vars

\* ------------------------------------------- the transport simulator
\* src/src/mock/MockWebSocket.ts.  The singleton is one record: its fields,
\* the callbacks given to setTimeout that have not run yet (timers), the
\* clock that Date.now() reads (now), the time in milliseconds since the
\* construction at which the running task started (time: it advances only
\* where timers fire in the order of their due times), and history: the number of calls made,
\* the callbacks registered last, the listeners that the last delivered
\* message invoked, the notifications given to onError and onClose
\* callbacks, whether close() was called and nothing has connected the
\* instance since (awaiting), and whether it was a connection attempt of
\* the instance itself that ended that wait (reconnected).
MockMaxRetries == 3
MaxReconnectAttempts == 5
responseDelay == 500

\* the frames given to send(): an envelope as sendMessage frames it, with
\* and without an encryption key
MockData == {Encode(k, ReplyEnvelope(2)).val : k \in KeyValues}

\* the argument of a timer callback that closes over nothing
NoArg == [none |-> TRUE]

MockSetTimeout(m, kind, arg, delay) ==
  [m EXCEPT !.timers = @ \cup {[id |-> m.tseq + 1, kind |-> kind,
                                arg |-> arg, delay |-> delay,
                                due |-> m.time + delay]},
            !.tseq = @ + 1]

\* Map.set(key, cb): the entry of an existing key is replaced in place
MapSet(map, key, cb) ==
  IF \E i \in 1..Len(map) : map[i].key = key
  THEN [i \in 1..Len(map) |->
          IF map[i].key = key THEN [key |-> key, cb |-> cb] ELSE map[i]]
  ELSE Append(map, [key |-> key, cb |-> cb])

\* the callbacks of a listener map, in forEach order
Callbacks(map) == [i \in 1..Len(map) |-> map[i].cb]

\* simulateServerResponse (lines 154-190); drop is Math.random() < 0.05
MockWebSocket_simulateServerResponse(m, type, drop) ==
  IF ~m.isConnected \/ drop THEN m
  ELSE [m EXCEPT !.delivered = type,
                 !.invoked = Callbacks(m.messageListeners)
                               \o Callbacks(m.responseListeners),
                 !.flip = ~@]

\* onMessage (lines 46-53): every key of messageListeners starts with
\* "message-", so every entry is deleted
MockWebSocket_onMessage(m) ==
  [m EXCEPT !.messageListeners = MapSet(<<>>, m.now, m.cbSeq + 1),
            !.cbSeq = @ + 1,
            !.lastMessageCb = m.cbSeq + 1]

\* registerResponseHandler that clears the handlers registered before
MockWebSocket_registerResponseHandler_Replaces(m) ==
  [m EXCEPT !.responseListeners = MapSet(<<>>, m.now, m.cbSeq + 1),
            !.cbSeq = @ + 1,
            !.lastResponseCb = m.cbSeq + 1]

\* registerResponseHandler (lines 147-151)
MockWebSocket_registerResponseHandler(m) ==
  [m EXCEPT !.responseListeners = MapSet(@, m.now, m.cbSeq + 1),
            !.cbSeq = @ + 1,
            !.lastResponseCb = m.cbSeq + 1]

\* onOpen (lines 55-60) called without a callback
MockWebSocket_onOpen(m) == [m EXCEPT !.isConnected = TRUE]

\* onError (lines 62-70); inject is Math.random() < 0.1
MockWebSocket_onError(m, inject) ==
  IF inject THEN MockSetTimeout(m, "error", NoArg, responseDelay) ELSE m

\* onClose (lines 72-81)
MockWebSocket_onClose(m) ==
  IF m.isConnected THEN MockSetTimeout(m, "close", NoArg, responseDelay) ELSE m

\* send (lines 83-99): JSON.parse throws on a text that is not JSON
MockWebSocket_send(m, data) ==
  LET parsedData == JsonParse(data)
  IN IF parsedData.ok
     THEN MockSetTimeout(m, "response", parsedData.val, responseDelay)
     ELSE m

\* attemptConnect that counts the attempt in retryCount
MockWebSocket_attemptConnect_Counts(m) ==
  MockSetTimeout([m EXCEPT !.retryCount = @ + 1], "attempt", NoArg,
                 responseDelay * (m.retryCount + 1))

\* attemptConnect (lines 110-123): the timer only
MockWebSocket_attemptConnect(m) ==
  MockSetTimeout(m, "attempt", NoArg, responseDelay * (m.retryCount + 1))

\* connect (lines 101-108)
MockWebSocket_connect(m) ==
  IF m.isConnected \/ m.isConnecting THEN m
  ELSE MockWebSocket_attemptConnect(
         [m EXCEPT !.isConnecting = TRUE, !.retryCount = 0])

\* handleConnectionFailure (lines 125-133)
MockWebSocket_handleConnectionFailure(m) ==
  IF m.reconnectAttempts < MaxReconnectAttempts
  THEN MockSetTimeout(m, "failure", NoArg,
                      responseDelay * 2 * m.reconnectAttempts)
  ELSE m

\* close that emits the disconnect message before it leaves the connected
\* state
MockWebSocket_close_EmitsFirst(m) ==
  LET m1 == MockWebSocket_simulateServerResponse(m, "disconnect", FALSE)
  IN MockWebSocket_handleConnectionFailure(
       [m1 EXCEPT !.isConnected = FALSE, !.isConnecting = FALSE])

\* close that does not start the reconnect
MockWebSocket_close_NoReconnect(m) ==
  MockWebSocket_simulateServerResponse(
    [m EXCEPT !.isConnected = FALSE, !.isConnecting = FALSE],
    "disconnect", FALSE)

\* close (lines 135-144); the disconnect message is never delivered, since
\* isConnected is false by then
MockWebSocket_close(m) ==
  MockWebSocket_handleConnectionFailure(
    MockWebSocket_simulateServerResponse(
      [m EXCEPT !.isConnected = FALSE, !.isConnecting = FALSE],
      "disconnect", FALSE))

\* sendAuthMessage (lines 198-206)
MockWebSocket_sendAuthMessage(m) == MockSetTimeout(m, "auth", NoArg, 200)

\* the callback of timer t runs; drop is the Math.random() < 0.05 of a
\* simulateServerResponse that it calls
MockTimeoutBody(m0, t, drop) ==
  LET m == [m0 EXCEPT !.timers = @ \ {t}]
  IN CASE t.kind = "ctor" ->
            \* lines 25-36
            MockWebSocket_simulateServerResponse(
              MockWebSocket_onOpen([m EXCEPT !.isConnected = TRUE,
                                             !.awaiting = FALSE]),
              "connect", drop)
       [] t.kind = "error" ->
            \* line 67
            [m EXCEPT !.errors = @ + 1]
       [] t.kind = "close" ->
            \* lines 76-77
            [m EXCEPT !.isConnected = FALSE, !.closes = @ + 1]
       [] t.kind = "response" ->
            \* lines 89-95
            MockWebSocket_simulateServerResponse(m, "response", drop)
       [] t.kind = "auth" ->
            \* lines 199-205
            MockWebSocket_simulateServerResponse(m, "auth", drop)
       [] t.kind = "attempt" ->
            \* lines 111-122
            IF m.retryCount < MockMaxRetries
            THEN MockWebSocket_onOpen(
                   [m EXCEPT !.isConnected = TRUE,
                             !.isConnecting = FALSE,
                             !.reconnectAttempts = 0,
                             !.reconnected = m.awaiting,
                             !.awaiting = FALSE])
            ELSE MockWebSocket_handleConnectionFailure(m)
       [] t.kind = "failure" ->
            \* lines 127-131
            MockWebSocket_attemptConnect(
              [m EXCEPT !.reconnectAttempts = @ + 1, !.retryCount = 0])

\* the instance that getInstance has just constructed (lines 3-37)
MockConstructed ==
  [stage |-> "run",
   isConnected |-> FALSE, isConnecting |-> FALSE,
   retryCount |-> 0, reconnectAttempts |-> 0,
   messageListeners |-> <<>>, responseListeners |-> <<>>,
   timers |-> {[id |-> 1, kind |-> "ctor", arg |-> NoArg,
                delay |-> responseDelay, due |-> responseDelay]},
   time |-> 0, tseq |-> 1, now |-> 0, cbSeq |-> 0, calls |-> 0,
   lastMessageCb |-> 0, lastResponseCb |-> 0,
   delivered |-> "none", invoked |-> <<>>, flip |-> FALSE,
   errors |-> 0, closes |-> 0,
   awaiting |-> FALSE, reconnected |-> FALSE]

InitMock ==
  /\ FirstRender
  /\ maxRetries = 5
  /\ encryptionKey = ""
  /\ codec = CodecIdle
  /\ backoff = BackoffIdle
  /\ mock = MockConstructed

\* a call of the client: counted, and none after MaxCalls
MockCall(m) ==
  /\ mock.calls < MaxCalls
  /\ mock' = [m EXCEPT !.calls = mock.calls + 1]
  /\ UNCHANGED <<Component, codec, backoff>>

CallOnMessage == MockCall(MockWebSocket_onMessage(mock))

CallRegisterResponseHandler ==
  MockCall(MockWebSocket_registerResponseHandler(mock))

\* onOpen(callback) called by the client: the callback only logs
CallOnOpen ==
  MockCall([MockWebSocket_onOpen(mock) EXCEPT !.awaiting = FALSE])

CallOnError(inject) == MockCall(MockWebSocket_onError(mock, inject))

CallOnClose == MockCall(MockWebSocket_onClose(mock))

CallSend(data) == MockCall(MockWebSocket_send(mock, data))

CallConnect ==
  MockCall([MockWebSocket_connect(mock) EXCEPT !.awaiting = FALSE])

CallClose ==
  MockCall([MockWebSocket_close(mock) EXCEPT !.awaiting = TRUE,
                                             !.reconnected = FALSE])

CallSendAuthMessage == MockCall(MockWebSocket_sendAuthMessage(mock))

\* a pending timer fires
MockTimeout(t, drop) ==
  /\ mock' = MockTimeoutBody(mock, t, drop)
  /\ UNCHANGED <<Component, codec, backoff>>

\* a millisecond passes
MockTick ==
  /\ mock.now < MaxNow
  /\ mock' = [mock EXCEPT !.now = @ + 1]
  /\ UNCHANGED <<Component, codec, backoff>>

NextMock ==
  \/ CallOnMessage
  \/ CallRegisterResponseHandler
  \/ CallOnOpen
  \/ \E inject \in BOOLEAN : CallOnError(inject)
  \/ CallOnClose
  \/ \E data \in MockData : CallSend(data)
  \/ CallConnect
  \/ CallClose
  \/ CallSendAuthMessage
  \/ \E t \in mock.timers, drop \in BOOLEAN : MockTimeout(t, drop)
  \/ MockTick

SpecMock == InitMock /\ [][NextMock]_vars

\* every callback given to setTimeout runs
MockFairness ==
  \A id \in 1..(2 * MaxCalls + 1) :
    WF_vars(\E t \in mock.timers, drop \in BOOLEAN :
              t.id = id /\ MockTimeout(t, drop))

\* The calls that read or write isConnected, isConnecting, retryCount or
\* reconnectAttempts, and the timers: the connection side of the simulator,
\* which the listeners, send() and the clock do not touch.
NextMockConn ==
  \/ CallOnOpen
  \/ CallOnClose
  \/ CallConnect
  \/ CallClose
  \/ \E t \in mock.timers, drop \in BOOLEAN : MockTimeout(t, drop)

SpecMockLive == InitMock /\ [][NextMockConn]_vars /\ MockFairness

\* --------------------------- the simulator with timers in due order
\* close() called at any moment at which a task may run, and the timer
\* callbacks run as the event loop runs them: the one that is due first,
\* and of two due at the same time the one created first.
FiresNext(t) ==
  \A u \in mock.timers :
    u.due > t.due \/ (u.due = t.due /\ u.id >= t.id)

TimedClose ==
  /\ mock.calls < MaxCloses
  /\ mock' = [MockWebSocket_close(mock) EXCEPT !.calls = @ + 1,
                                               !.awaiting = TRUE,
                                               !.reconnected = FALSE]
  /\ UNCHANGED <<Component, codec, backoff>>

TimedTimeout(t, drop) ==
  /\ FiresNext(t)
  /\ mock' = MockTimeoutBody(
               [mock EXCEPT !.time = IF t.due > @ THEN t.due ELSE @],
               t, drop)
  /\ UNCHANGED <<Component, codec, backoff>>

NextMockTimed ==
  \/ TimedClose
  \/ \E t \in mock.timers, drop \in BOOLEAN : TimedTimeout(t, drop)

SpecMockTimed == InitMock /\ [][NextMockTimed]_vars

\* ------------------------------ the component over the simulator
\* ChatUi.tsx creates a browser WebSocket (line 471) and no source file
\* hands it the simulator.  Here the simulator stands in for the server
\* side of the socket, wired the one way its methods allow without further
\* code: the frame given to ws.send is given to MockWebSocket.send, and the
\* function assigned to ws.onmessage is the listener given to
\* MockWebSocket.onMessage.

\* what JSON.parse and atob make of the value undefined: the text
\* "undefined"
Undefined == <<117, 110, 100, 101, 102, 105, 110, 101, 100>>

\* the simulator calls listener(message) (line 176) with its message
\* object, whose fields are type, originalRequest, timestamp, mockTimestamp
\* and from: the event.data that ws.onmessage reads (line 489) is undefined
AdapterListener(w, message) == OnMessage(w, Undefined)

\* the frames that a step has put on the wire are given to send()
RECURSIVE AdapterSend(_, _)
AdapterSend(m, entries) ==
  IF entries = <<>> THEN m
  ELSE AdapterSend(MockWebSocket_send(m, Head(entries).frame), Tail(entries))

InitEcho ==
  /\ FirstRender
  /\ maxRetries = 5
  /\ encryptionKey \in KeyValues
  /\ codec = CodecIdle
  /\ backoff = BackoffIdle
  /\ mock = MockConstructed

\* the mount effect; connectWebSocket assigns ws.onmessage (line 486)
EchoMount ==
  /\ phase = "initial"
  /\ LET n == Render(ConnectWebSocket([World EXCEPT !.phase = "mounted"], cur))
     IN CommitWorld(n)
  /\ mock' = MockWebSocket_onMessage(mock)
  /\ lastOp' = "mount"
  /\ UNCHANGED <<offline, retried, codec, backoff>>

\* handleSend; every frame that ws.send accepted went to the simulator
EchoHandleSend(content) ==
  /\ phase = "mounted"
  /\ Trim(content) # "" => Len(offline) + Len(messages) - 1 < MaxSubmits
  /\ LET n == Render(HandleSendBody(World, content))
     IN /\ CommitWorld(n)
        /\ mock' = AdapterSend(mock, SubSeq(n.wire, Len(wire) + 1,
                                            Len(n.wire)))
  /\ offline' = IF Trim(content) # "" /\ ~isConnected
                THEN Append(offline, content) ELSE offline
  /\ UNCHANGED <<lastOp, retried, codec, backoff>>

\* a timer of the simulator fires; a message that it delivers goes to the
\* listener
EchoTimeout(t, drop) ==
  /\ mock' = MockTimeoutBody(mock, t, drop)
  /\ IF mock'.flip # mock.flip /\ mock.messageListeners # <<>>
     THEN /\ CommitWorld(Render(AdapterListener(World, mock'.delivered)))
          /\ lastOp' = "dropped"
          /\ UNCHANGED <<offline, retried>>
     ELSE UNCHANGED Component
  /\ UNCHANGED <<codec, backoff>>

\* the simulator's sendAuthMessage, whose reply reaches the same listener
EchoSendAuthMessage ==
  /\ mock.calls < MaxCalls
  /\ mock' = [MockWebSocket_sendAuthMessage(mock) EXCEPT !.calls = @ + 1]
  /\ UNCHANGED <<Component, codec, backoff>>

NextEcho ==
  \/ EchoMount
  \/ \E s \in 1..Len(sockets) : WsOpen(s)
  \/ \E content \in Contents : EchoHandleSend(content)
  \/ \E t \in mock.timers, drop \in BOOLEAN : EchoTimeout(t, drop)
  \/ EchoSendAuthMessage

SpecEcho == InitEcho /\ [][NextEcho]_vars

\* ------------------------------------------------------------ vocabulary
\* the ConnectionState that connectionStatus (lines 126-132) displays
Connected == isConnected
Connecting == ~isConnected /\ isConnecting
Reconnecting == ~isConnected /\ ~isConnecting /\ isAutoConnecting
Disconnected == ~isConnected /\ ~isConnecting /\ ~isAutoConnecting

\* q is a subsequence of r
RECURSIVE IsSubseq(_, _)
IsSubseq(q, r) ==
  IF q = <<>> THEN TRUE
  ELSE IF r = <<>> THEN FALSE
  ELSE IF Head(q) = Head(r) THEN IsSubseq(Tail(q), Tail(r))
  ELSE IsSubseq(q, Tail(r))

\* the contents handed to an open transport, in handoff order
WireContents ==
  LET F[i \in 0..Len(wire)] ==
        IF i = 0 THEN <<>>
        ELSE IF wire[i].st = "open" THEN Append(F[i - 1], wire[i].content)
        ELSE F[i - 1]
  IN F[Len(wire)]

\* the last socket that opened (0 if none did), and the attempts after it
\* that failed (closed abnormally without opening)
LastOpened ==
  LET o == {s \in 1..Len(sockets) : sockets[s].wasOpen}
  IN IF o = {} THEN 0 ELSE CHOOSE s \in o : \A r \in o : r <= s

FailedAttempts ==
  Cardinality({s \in 1..Len(sockets) :
                 /\ s > LastOpened /\ sockets[s].st = "closed"
                 /\ sockets[s].code # 1000})

\* ---------------------------------------------------------------- claims

\* C1: every message submitted while the connection is not Connected is
\* handed to the transport, in submission order, on the next transition
\* into Connected, and the outbound queue is empty afterwards.
C1_Original ==
  (lastOp = "open" /\ isConnected) =>
     /\ IsSubseq(offline, WireContents)
     /\ messageQueueRef = <<>>

\* C2: a submit issued while Disconnected creates a new message and appends
\* it to the outbound queue in the pending ("sending") state.
C2_Original ==
  [][(offline' # offline /\ Disconnected) =>
       /\ Len(messages') = Len(messages) + 1
       /\ Len(messageQueueRef') = Len(messageQueueRef) + 1
       /\ messageQueueRef'[Len(messageQueueRef')].id = Len(messages')
       /\ messageQueueRef'[Len(messageQueueRef')].status = "sending"]_vars

\* C3: once the attempts the policy allows (the first one and maxRetries
\* retries) have all failed with no open in between, no further reconnect
\* timer is scheduled and no connection attempt is opened, except by a
\* manual connect.
C3_Original ==
  [][(FailedAttempts > maxRetries /\ lastOp' # "connect") =>
       (timerSeq' = timerSeq /\ Len(sockets') = Len(sockets))]_vars

\* C4: at most one reconnect timer is outstanding in every reachable state.
C4_Original == Cardinality(timers) <= 1

\* C5: when a reconnect timer elapses (component mounted), a new transport
\* connection attempt is opened, it becomes the current socket, and the
\* state becomes Connecting: the timer firing is never a no-op.
C5_TimerOpensAttempt ==
  [][(lastOp' = "timer" /\ timers' # timers /\ phase = "mounted") =>
       /\ Len(sockets') = Len(sockets) + 1
       /\ sockets'[Len(sockets')].st = "connecting"
       /\ wsRef' = Len(sockets')
       /\ isConnecting']_vars

\* a timer has elapsed in the Reconnecting state and the state is Connecting
C5_Witness ==
  /\ lastOp = "timer" /\ phase = "mounted"
  /\ isAutoConnecting /\ isConnecting /\ ~isConnected
  /\ Len(sockets) >= 2 /\ sockets[wsRef].st = "connecting"

\* C6: in the Failed state (the attempt counter has reached maxRetries) a
\* manual connect resets the counter to 0, moves the state to Connecting and
\* opens a new connection attempt.
C6_Original ==
  [][(lastOp' = "connect" /\ lastOp # "connect"
      /\ connectionRetryCount >= maxRetries) =>
       /\ connectionRetryCount' = 0
       /\ isConnecting'
       /\ Len(sockets') = Len(sockets) + 1]_vars

\* C7: connect() changes nothing when the state is Connecting or Connected,
\* and in every other state it opens a connection attempt and moves the
\* state to Connecting.
C7_Original ==
  [][(lastOp' = "connect" /\ lastOp # "connect") =>
       IF isConnected \/ isConnecting
       THEN UNCHANGED <<isConnected, isConnecting, isAutoConnecting,
                        connectionRetryCount, sockets, wsRef, timers>>
       ELSE /\ Len(sockets') = Len(sockets) + 1
            /\ isConnecting' /\ ~isConnected']_vars

C9_Original ==
  \A s \in 1..Len(sockets) :
    (/\ sockets[s].st = "closed" /\ sockets[s].code # 1000
     /\ sockets[s].snap.connectionRetryCount < maxRetries) =>
       sockets[s].sched = 1

\* C10: tearing the component down while a reconnect is pending cancels the
\* pending reconnect: no reconnect timer is outstanding afterwards, and the
\* queue and the registry keep their contents.
C10_Original ==
  [][(phase = "mounted" /\ phase' = "unmounted" /\ timers # {}) =>
       /\ timers' = {}
       /\ messageQueueRef' = messageQueueRef
       /\ failedMessagesRef' = failedMessagesRef]_vars

\* ------------------------------------------ vocabulary of the message claims
InQueue(id) ==
  \E i \in 1..Len(messageQueueRef) : messageQueueRef[i].id = id

\* handed to the transport: WebSocket.send was called and returned
OnWire(id) == \E i \in 1..Len(wire) : wire[i].id = id

\* the retry of message id is requested in this step
RetryStep(id) == retried' = id /\ retried # id

\* a send of msg now would not throw
SendSucceeds(msg) ==
  Frame(World, msg).ok /\ wsRef # 0 /\ ~SendThrows(World)

\* C11: a message whose immediate send in the Connected state threw is
\* marked failed and is in the failed-message registry under its id: every
\* message marked failed is in the registry.
C11_Original ==
  \A i \in 1..Len(messages) :
    messages[i].status = "failed" => InRegistry(World, messages[i].id)

\* C12: every accepted message is in exactly one of the outbound queue, the
\* failed-message registry and in-flight/sent (handed to the transport),
\* in every reachable state.
C12_Original ==
  \A i \in 2..Len(messages) :
    LET id == messages[i].id
    IN /\ InQueue(id) \/ InRegistry(World, id) \/ OnWire(id)
       /\ ~(InQueue(id) /\ InRegistry(World, id))
       /\ ~(InQueue(id) /\ OnWire(id))
       /\ ~(InRegistry(World, id) /\ OnWire(id))

C14_Original ==
  [][\A id \in 1..Len(messages) :
       (RetryStep(id) /\ ~InRegistry(World, id)) =>
          UNCHANGED <<messages, messageQueueRef, failedMessagesRef,
                      retryMessageId>>]_vars

C16_Original ==
  [][\A id \in 1..Len(messages) :
       (/\ RetryStep(id) /\ messages[id].status = "failed"
        /\ isConnected /\ SendSucceeds(messages[id])) =>
          /\ Len(wire') = Len(wire) + 1
          /\ wire'[Len(wire')].id = id
          /\ retryTimers' = retryTimers]_vars

\* C17: for every envelope and every key, encoding never fails, and
\* decoding the encoded frame with the same key succeeds and gives back id,
\* content and timestamp exactly.
C17_Original ==
  /\ codec.stage \in {"encoded", "decoded"} => codec.frame.ok
  /\ codec.stage = "decoded" => codec.out = Ok(codec.env)

\* C18: an inbound frame whose reverse transform or JSON parse fails is
\* dropped: the connection state, the attempt counter, the message list,
\* the queue, the registry, the sockets and the timers are unchanged and
\* the component stays mounted (nothing escapes the handler), so that later
\* frames of the socket are handled as before.
C18_BadFrameDropped ==
  [][(lastOp' = "dropped" /\ lastOp # "dropped") =>
       UNCHANGED <<phase, isConnected, isConnecting, isAutoConnecting,
                   connectionRetryCount, showErrorMessage, messages,
                   messageQueueRef, failedMessagesRef, retryMessageId,
                   retryTimers, sockets, wsRef, timers, timerSeq, wire>>]_vars

\* a frame was just dropped while a sent message is waiting for its reply
C18_Witness ==
  /\ lastOp = "dropped" /\ phase = "mounted" /\ isConnected
  /\ wsRef # 0 /\ sockets[wsRef].st = "open"
  /\ \E i \in 2..Len(messages) :
       messages[i].status = "sending" /\ OnWire(messages[i].id)

\* C19: every frame handed to the transport was handed over while the
\* connection state was Connected.
C19_SendOnlyWhenConnected ==
  \A i \in 1..Len(wire) : wire[i].connected

\* a frame has been handed to an open transport in the Connected state
C19_Witness ==
  /\ Len(wire) >= 1 /\ wire[1].connected /\ wire[1].st = "open"
  /\ messages[wire[1].id].status = "sending"

\* the delays of the scenario of C20
C20_Delays == <<4000, 8000, 10000>>

\* the number of abnormal closes since the last open, when every socket
\* from the last opened one on (from the first one if none opened) has
\* closed abnormally; 0 otherwise
AbnormalRun ==
  LET from == IF LastOpened = 0 THEN 1 ELSE LastOpened
  IN IF \A s \in from..Len(sockets) :
          sockets[s].st = "closed" /\ sockets[s].code # 1000
     THEN Len(sockets) - from + 1
     ELSE 0

\* C20: with maxRetries = 5, the k-th consecutive abnormal close with no
\* open in between (k = 1, 2, 3) makes the state Reconnecting with the
\* attempt counter k and schedules a reconnect with delay 4000, 8000 and
\* 10000 ms respectively.
C20_Original ==
  [][\A s \in 1..Len(sockets) :
       (/\ sockets[s].st # "closed" /\ sockets'[s].st = "closed"
        /\ maxRetries = 5 /\ phase = "mounted" /\ phase' = "mounted"
        /\ AbnormalRun' \in 1..3) =>
          /\ connectionRetryCount' = AbnormalRun'
          /\ isAutoConnecting' /\ ~isConnected' /\ ~isConnecting'
          /\ \E t \in timers' \ timers :
               t.delay = C20_Delays[AbnormalRun']]_vars

\* the transports that are opening or open
Alive == {s \in 1..Len(sockets) : sockets[s].st \in {"connecting", "open"}}

\* C21: the delay computed for attempt n is min(base * 2^n, max) in
\* exponential mode and base in linear mode; in exponential mode it never
\* exceeds max and is not smaller than the delay of attempt n - 1.
C21_BackoffDelay ==
  [][LET n == backoff'.n
         b == backoff'.base
         m == backoff'.max
     IN IF backoff'.enable
        THEN /\ backoff'.delay = (IF b * 2^n <= m THEN b * 2^n ELSE m)
             /\ backoff'.delay <= m
             /\ backoff.n >= 1 => backoff'.delay >= backoff.delay
        ELSE backoff'.delay = b]_vars

\* exponential mode, the cap reached at the third attempt or later after
\* uncapped delays
C21_Witness ==
  /\ backoff.enable
  /\ backoff.n >= 3
  /\ backoff.base * 4 < backoff.max
  /\ backoff.delay = backoff.max

\* C22: at any time at most one transport created by the connection manager
\* is open or opening.
C22_Original == Cardinality(Alive) <= 1

\* C23: of the flags isConnected, isConnecting and isAutoConnecting at most
\* one is true in every reachable state.
C23_Original ==
  /\ ~(isConnected /\ isConnecting)
  /\ ~(isConnected /\ isAutoConnecting)
  /\ ~(isConnecting /\ isAutoConnecting)

\* C24: no step changes the content of an existing message.
C24_Original ==
  [][\A i \in 1..Len(messages) :
       messages'[i].content = messages[i].content]_vars

\* C25: when the simulator delivers (does not drop) the response to a frame
\* that the component handed to it, the component's message whose id is the
\* id of the request has status sent.
C25_Original ==
  [][\A t \in mock.timers :
       (/\ t.kind = "response"
        /\ t \notin mock'.timers
        /\ mock'.flip # mock.flip
        /\ "id" \in DOMAIN t.arg) =>
          \A i \in 1..Len(messages') :
            IdStr(messages'[i].id) = t.arg.id =>
              messages'[i].status = "sent"]_vars

\* C26: once a message listener has been registered, the listeners hold
\* exactly the callback registered last, and likewise the response
\* handlers; a delivered message invokes exactly those callbacks.
C26_Original ==
  [][/\ mock'.lastMessageCb # 0 =>
          Callbacks(mock'.messageListeners) = <<mock'.lastMessageCb>>
     /\ mock'.lastResponseCb # 0 =>
          Callbacks(mock'.responseListeners) = <<mock'.lastResponseCb>>
     /\ mock'.flip # mock.flip =>
          mock'.invoked =
            (IF mock.lastMessageCb # 0 THEN <<mock.lastMessageCb>> ELSE <<>>)
            \o (IF mock.lastResponseCb # 0 THEN <<mock.lastResponseCb>>
                ELSE <<>>)]_vars

\* C27: when an injected error is notified, the simulator has left the
\* connected state or the close notification is scheduled.
C27_Original ==
  [][mock'.errors > mock.errors =>
       \/ ~mock'.isConnected
       \/ \E t \in mock'.timers : t.kind = "close"]_vars

\* C28: after close(), without any connect() call of the client, the
\* simulator is eventually connected again.
C28_CloseReconnects == mock.awaiting ~> mock.isConnected

\* close() was called, the client called neither connect() nor onOpen()
\* after it, and a connection attempt of the simulator has connected it
C28_Witness == mock.reconnected /\ mock.isConnected

\* C29: the failed-message registry is empty after every step and no delayed
\* retry send is ever pending, so the only step that hands a frame to the
\* transport is a submit (which appends a message): neither a retry nor the
\* sweep that runs when a socket opens puts anything on the wire.
C29_RegistryEmpty ==
  [][/\ failedMessagesRef' = <<>>
     /\ retryTimers' = {}
     /\ wire' # wire => Len(messages') = Len(messages) + 1]_vars

\* a send failed, the retry of the failed message was requested while
\* Connected, and the registry is empty
C29_Witness ==
  /\ retried # 0 /\ messages[retried].status = "failed" /\ isConnected
  /\ failedMessagesRef = <<>>

\* C30: while the component is mounted, whenever isConnected is true the transport that wsRef references is
\* open (at the least it has opened: the interval between a close() call
\* and its close event is not held against the claim), and a close or error
\* event of a transport that wsRef no longer references changes neither
\* isConnected, isConnecting nor the attempt counter.
C30_Original ==
  [][phase' = "mounted" =>
     /\ isConnected' =>
          (wsRef' # 0 /\ sockets'[wsRef'].st \in {"open", "closing"}
                      /\ sockets'[wsRef'].wasOpen)
     /\ \A s \in 1..Len(sockets) :
          (/\ s # wsRef /\ lastOp' \in {"close", "error"}
           /\ sockets'[s] # sockets[s]) =>
             UNCHANGED <<isConnected, isConnecting,
                         connectionRetryCount>>]_vars

\* C32: retryCount is 0 after every step of the simulator, and a connection
\* attempt whose timer fires leaves the simulator connected with
\* reconnectAttempts 0.
C32_RetryCountZero ==
  [][/\ mock'.retryCount = 0
     /\ \A t \in mock.timers :
          (t.kind = "attempt" /\ t \notin mock'.timers) =>
             mock'.isConnected /\ mock'.reconnectAttempts = 0]_vars

\* close() started a reconnect whose failure timer and attempt timer have
\* both fired: the simulator is connected and both counters are 0
C32_Witness ==
  /\ mock.reconnected
  /\ mock.retryCount = 0
  /\ mock.reconnectAttempts = 0
  /\ ~\E t \in mock.timers : t.kind \in {"attempt", "failure"}

\* C33: reconnectAttempts never exceeds maxReconnectAttempts.
C33_Original == mock.reconnectAttempts <= MaxReconnectAttempts

\* C34: no listener is ever given the disconnect message of close().
C34_DisconnectNotDelivered == mock.delivered # "disconnect"

\* a listener was registered, the connect message of the constructor was
\* delivered to it, and close() was then called on the connected simulator
\* (no close notification came before it): nothing was delivered since
C34_Witness ==
  /\ mock.awaiting
  /\ ~mock.isConnected
  /\ mock.closes = 0
  /\ mock.delivered = "connect"
  /\ mock.invoked # <<>>

\* C31: when a socket opens while a reconnect attempt is counted
\* (connectionRetryCount > 0: the socket was created by a reconnect timer)
\* the handling of the open event leaves that socket open: the component
\* does not call close() on it.
C31_Original ==
  [][\A s \in 1..Len(sockets) :
       (/\ lastOp' = "open"
        /\ phase' = "mounted"
        /\ connectionRetryCount > 0
        /\ sockets[s].st = "connecting"
        /\ sockets'[s].wasOpen) =>
          sockets'[s].st = "open"]_vars

====
